---- MODULE Spec2Model ----
(***************************************************************************)
(* Model of the streaming client of ai-revenue-manager:                    *)
(*   - the optimize pipeline: reducer + useOptimize (run / reset / setTab  *)
(*     / setProvider) of hooks/useOptimize, driven by the event generator  *)
(*     streamOptimize of lib/api;                                          *)
(*   - the chat stream decoder streamChat of lib/chatApi.                  *)
(* One step of the model is one JavaScript task: a user call, the          *)
(* settling of a fetch or of a read together with the microtasks it        *)
(* triggers, or the firing of the 400 ms pacing timer.                     *)
(***************************************************************************)
EXTENDS Integers, Sequences, FiniteSets, TLC

\* ---------------------------------------------------------------- bounds
MaxRuns == 2
MaxEvents == 2

\* ------------------------------------------------------- types.ts values
NODE_ORDER ==
  <<"router", "market_analyst", "demand_forecaster", "pricing_strategist", "revenue_manager">>

NodeName == {NODE_ORDER[i] : i \in 1..Len(NODE_ORDER)}

LLMProvider == {"anthropic", "gemini"}

Null == "null"
NoValue == 0

Runs == 1..MaxRuns

PROVIDER_MODEL_LABELS ==
  [p \in LLMProvider |->
     IF p = "anthropic"
       THEN [n \in NodeName |->
               IF n \in {"demand_forecaster", "pricing_strategist"} THEN "Sonnet" ELSE "Haiku"]
       ELSE [n \in NodeName |-> "G3 Flash"]]

NodeLabel ==
  [n \in NodeName |->
     CASE n = "router" -> "Query Router"
       [] n = "market_analyst" -> "Market Analyst"
       [] n = "demand_forecaster" -> "Demand Forecaster"
       [] n = "pricing_strategist" -> "Pricing Strategist"
       [] OTHER -> "Revenue Manager"]

buildPipelineNodes(provider) ==
  [i \in 1..Len(NODE_ORDER) |->
     [id |-> NODE_ORDER[i], label |-> NodeLabel[NODE_ORDER[i]],
      model |-> PROVIDER_MODEL_LABELS[provider][NODE_ORDER[i]],
      status |-> "pending", data |-> NoValue]]

initialState ==
  [phase |-> "idle", nodes |-> buildPipelineNodes("anthropic"),
   result |-> NoValue, error |-> Null, activeTab |-> Null]

\* ------------------------------------------------------------ the reducer
\* START that builds the nodes anew, with the labels of the default provider (mutant)
reducerSTART_rebuilds(s) ==
  [s EXCEPT !.phase = "streaming", !.result = NoValue, !.error = Null,
            !.activeTab = Null, !.nodes = buildPipelineNodes("anthropic")]

\* START that leaves the stored error as it is (mutant)
reducerSTART_keepsError(s) ==
  LET pend(n) == [n EXCEPT !.status = "pending", !.data = NoValue]
  IN [s EXCEPT !.phase = "streaming", !.result = NoValue,
               !.activeTab = Null, !.nodes = [i \in DOMAIN s.nodes |-> pend(s.nodes[i])]]

reducerSTART(s) ==
  LET pend(n) == [n EXCEPT !.status = "pending", !.data = NoValue]
  IN [s EXCEPT !.phase = "streaming", !.result = NoValue, !.error = Null,
               !.activeTab = Null, !.nodes = [i \in DOMAIN s.nodes |-> pend(s.nodes[i])]]

reducerNODE_ACTIVE(s, node) ==
  LET act(n) == IF n.id = node THEN [n EXCEPT !.status = "active"] ELSE n
  IN [s EXCEPT !.nodes = [i \in DOMAIN s.nodes |-> act(s.nodes[i])]]

\* NODE_DONE that adds a record for the node instead of replacing it (mutant)
reducerNODE_DONE_appends(s, node, data) ==
  LET dn(n) == [n EXCEPT !.status = "done", !.data = data]
      old == CHOOSE i \in DOMAIN s.nodes : s.nodes[i].id = node
  IN [s EXCEPT !.nodes = Append(s.nodes, dn(s.nodes[old])), !.activeTab = node]

\* NODE_DONE that stores the data and moves the focus, but leaves the status (mutant)
reducerNODE_DONE_keepsStatus(s, node, data) ==
  LET dn(n) == IF n.id = node THEN [n EXCEPT !.data = data] ELSE n
  IN [s EXCEPT !.nodes = [i \in DOMAIN s.nodes |-> dn(s.nodes[i])], !.activeTab = node]

reducerNODE_DONE(s, node, data) ==
  LET dn(n) == IF n.id = node THEN [n EXCEPT !.status = "done", !.data = data] ELSE n
  IN [s EXCEPT !.nodes = [i \in DOMAIN s.nodes |-> dn(s.nodes[i])], !.activeTab = node]

\* COMPLETE that also marks every node done (mutant)
reducerCOMPLETE_forcesDone(s, result) ==
  LET dn(n) == [n EXCEPT !.status = "done"]
  IN [s EXCEPT !.phase = "complete", !.result = result,
               !.nodes = [i \in DOMAIN s.nodes |-> dn(s.nodes[i])]]

reducerCOMPLETE(s, result) ==
  [s EXCEPT !.phase = "complete", !.result = result]

\* ERROR that stores the message and marks the nodes, but leaves the phase (mutant)
reducerERROR_keepsPhase(s, error) ==
  LET er(n) == IF n.status = "active" THEN [n EXCEPT !.status = "error"] ELSE n
  IN [s EXCEPT !.error = error, !.nodes = [i \in DOMAIN s.nodes |-> er(s.nodes[i])]]

\* ERROR that marks every node that is not done, pending ones too (mutant)
reducerERROR_marksPending(s, error) ==
  LET er(n) == IF n.status # "done" THEN [n EXCEPT !.status = "error"] ELSE n
  IN [s EXCEPT !.phase = "error", !.error = error, !.nodes = [i \in DOMAIN s.nodes |-> er(s.nodes[i])]]

reducerERROR(s, error) ==
  LET er(n) == IF n.status = "active" THEN [n EXCEPT !.status = "error"] ELSE n
  IN [s EXCEPT !.phase = "error", !.error = error, !.nodes = [i \in DOMAIN s.nodes |-> er(s.nodes[i])]]

\* RESET that keeps the caller's selection (mutant)
reducerRESET_keepsSelection(s) ==
  [initialState EXCEPT !.nodes = buildPipelineNodes("anthropic"), !.activeTab = s.activeTab]

\* RESET that keeps the labels the nodes have (mutant)
reducerRESET_keepsLabels(s) ==
  LET pend(n) == [n EXCEPT !.status = "pending", !.data = NoValue]
  IN [initialState EXCEPT !.nodes = [i \in DOMAIN s.nodes |-> pend(s.nodes[i])]]

reducerRESET(s) ==
  [initialState EXCEPT !.nodes = buildPipelineNodes("anthropic")]

\* SET_TAB that is ignored unless a run is streaming (mutant)
reducerSET_TAB_whileStreaming(s, tab) ==
  IF s.phase = "streaming" THEN [s EXCEPT !.activeTab = tab] ELSE s

reducerSET_TAB(s, tab) ==
  [s EXCEPT !.activeTab = tab]

reducerSET_PROVIDER(s, provider) ==
  [s EXCEPT !.nodes = buildPipelineNodes(provider)]


\* ------------------------------------------------- state of the program
VARIABLES
  state,        \* useReducer state of useOptimize
  abortRef,     \* abortRef.current: the run whose controller is stored, 0 = null
  aborted,      \* aborted[r]: ctrl.signal.aborted of run r's controller
  pc,           \* where run r's async function is suspended, or how it ended:
                \* unused, fetching, reading, pacing; done (stream closed), sentinel
                \* ([DONE] read), failed (error caught), cancelled (abort caught)
  pend,         \* lines run r's generator has split off a chunk and not yet classified
  cur,          \* the Progress event run r holds across the pacing delay
  sent,         \* number of frames the server has sent so far, on all streams
  delivered,    \* history: events yielded to the run of abortRef while not aborted
  disturbed,    \* history: since the latest START or RESET an action of a cancelled
                \* run or a SET_PROVIDER has been applied
  last          \* history: the actions dispatched in the latest step, in order, each
                \* with the run whose function dispatched it (0: setTab, setProvider, reset)

optVars ==
  <<state, abortRef, aborted, pc, pend, cur, sent, delivered, disturbed, last>>

Act(r, type) == [run |-> r, type |-> type]

\* ----------------------------------------- streamOptimize (lib/api), frames
EventNodes == {"router", "market_analyst", "unknown_node"}

NoEvent == [kind |-> "none", node |-> "-", val |-> NoValue]

\* the records a stream of run r can carry; val tags the payload with its run
Frames(r) ==
  {[kind |-> "node", node |-> n, val |-> r] : n \in EventNodes}
    \cup {[kind |-> k, node |-> "-", val |-> r] : k \in {"result", "sentinel", "bad"}}

RECURSIVE SeqsOfLen(_, _)
SeqsOfLen(S, n) ==
  IF n = 0 THEN {<<>>}
  ELSE {Append(q, x) : q \in SeqsOfLen(S, n - 1), x \in S}

SeqsUpTo(S, n) == UNION {SeqsOfLen(S, k) : k \in 1..n}

\* the generator's loop over the lines of the current chunk: a malformed
\* payload is skipped, the [DONE] sentinel ends the generator, any other
\* payload is yielded; with no line left it awaits the next read
RECURSIVE streamOptimizeNext(_)
streamOptimizeNext(fr) ==
  IF fr = <<>> THEN [k |-> "await", ev |-> NoEvent, rest |-> <<>>]
  ELSE IF Head(fr).kind = "bad" THEN streamOptimizeNext(Tail(fr))
  ELSE IF Head(fr).kind = "sentinel" THEN [k |-> "return", ev |-> NoEvent, rest |-> <<>>]
  ELSE [k |-> "yield", ev |-> Head(fr), rest |-> Tail(fr)]

\* the error a fetch or read of a request with an aborted signal rejects with
AbortName == "AbortError"
AbortMessage == "The user aborted a request."

\* ------------------------------------------------- useOptimize.run's catch
\* a catch clause without the AbortError test (mutant)
catchDispatches_always(name) == TRUE

\* does an error with this name dispatch ERROR?
catchDispatches(name) == name # "AbortError"

catchMessage(message) == IF message = Null THEN "Unknown error occurred" ELSE message

\* the state after the catch clause has handled an error
catchClause(s, name, message) ==
  IF catchDispatches(name) THEN reducerERROR(s, catchMessage(message)) ELSE s

\* the actions the catch clause of run r dispatches
catchActs(r, name) == IF catchDispatches(name) THEN <<Act(r, "ERROR")>> ELSE <<>>

\* ------------------------------------------------- useOptimize.run's loop
\* every node identifier passes the test (mutant)
includes_any(node) == TRUE

\* NODE_ORDER.includes(node)
includes(node) == node \in NodeName

\* the for-await body of run r, from state s with the lines fr still to
\* classify, until the function suspends (pacing timer or a pending read) or
\* ends; ab: the run's signal is aborted, so the read the generator asks for
\* rejects at once
RECURSIVE dispatchLoop(_, _, _, _, _, _)
dispatchLoop(s, fr, dl, acts, r, ab) ==
  LET g == streamOptimizeNext(fr)
      dl2 == IF ab THEN dl ELSE Append(dl, g.ev)
  IN
  IF g.k = "await"
    THEN IF ab
      THEN [s |-> catchClause(s, AbortName, AbortMessage), pc |-> "cancelled",
            cur |-> NoEvent, pend |-> <<>>, dl |-> dl,
            acts |-> acts \o catchActs(r, AbortName)]
      ELSE [s |-> s, pc |-> "reading", cur |-> NoEvent, pend |-> <<>>, dl |-> dl,
            acts |-> acts]
  ELSE IF g.k = "return"
    THEN [s |-> s, pc |-> "sentinel", cur |-> NoEvent, pend |-> <<>>, dl |-> dl,
          acts |-> acts]
  ELSE IF g.ev.kind = "result"
    THEN dispatchLoop(reducerCOMPLETE(s, g.ev.val), g.rest, dl2,
                      Append(acts, Act(r, "COMPLETE")), r, ab)
  ELSE IF ~includes(g.ev.node)
    THEN dispatchLoop(s, g.rest, dl2, acts, r, ab)
  ELSE [s |-> reducerNODE_ACTIVE(s, g.ev.node), pc |-> "pacing", cur |-> g.ev,
        pend |-> g.rest, dl |-> dl2, acts |-> Append(acts, Act(r, "NODE_ACTIVE"))]

FetchErrors == {"HTTP 500", "Failed to fetch"}
ReadError == "network error"

TabChoices == {"router", "pricing_strategist"}

Unused == {r \in Runs : pc[r] = "unused"}

\* the run whose pending fetch or read abortRef.current?.abort() rejects
Interrupted ==
  {r \in Runs : r = abortRef /\ ~aborted[r] /\ pc[r] \in {"fetching", "reading"}}

\* the caller's dispatch without abortRef.current?.abort() before it (mutant)
AbortCurrent_noAbort(s, a) ==
  /\ aborted' = aborted
  /\ state' = s
  /\ last' = <<a>>

\* abortRef.current?.abort(), then the caller's dispatch a giving state s;
\* the rejected fetch or read of the aborted run reaches its catch clause in
\* the microtasks of the same task
AbortCurrent(s, a) ==
  /\ aborted' = [r \in Runs |-> aborted[r] \/ r = abortRef]
  /\ state' = IF Interrupted # {} THEN catchClause(s, AbortName, AbortMessage) ELSE s
  /\ last' = <<a>> \o (IF Interrupted # {} THEN catchActs(abortRef, AbortName) ELSE <<>>)

OptInit ==
  /\ state = initialState
  /\ abortRef = 0
  /\ aborted = [r \in Runs |-> FALSE]
  /\ pc = [r \in Runs |-> "unused"]
  /\ pend = [r \in Runs |-> <<>>]
  /\ cur = [r \in Runs |-> NoEvent]
  /\ sent = 0
  /\ delivered = <<>>
  /\ disturbed = FALSE
  /\ last = <<>>

\* run(req): abort the stored controller, store a new one, dispatch START,
\* and start the generator, which suspends in fetch
Run ==
  /\ Unused # {}
  /\ LET r == CHOOSE x \in Unused : \A y \in Unused : x <= y IN
       /\ AbortCurrent(reducerSTART(state), Act(r, "START"))
       /\ abortRef' = r
       /\ pc' = [o \in Runs |->
            IF o = r THEN "fetching" ELSE IF o \in Interrupted THEN "cancelled" ELSE pc[o]]
  /\ delivered' = <<>>
  /\ disturbed' = FALSE
  /\ UNCHANGED <<pend, cur, sent>>

\* reset(): abort the stored controller, dispatch RESET
Reset ==
  /\ AbortCurrent(reducerRESET(state), Act(0, "RESET"))
  /\ pc' = [o \in Runs |-> IF o \in Interrupted THEN "cancelled" ELSE pc[o]]
  /\ delivered' = <<>>
  /\ disturbed' = FALSE
  /\ UNCHANGED <<abortRef, pend, cur, sent>>

SetTab(tab) ==
  /\ state' = reducerSET_TAB(state, tab)
  /\ last' = <<Act(0, "SET_TAB")>>
  /\ UNCHANGED <<abortRef, aborted, pc, pend, cur, sent, delivered, disturbed>>

SetProvider(provider) ==
  /\ state' = reducerSET_PROVIDER(state, provider)
  /\ last' = <<Act(0, "SET_PROVIDER")>>
  /\ disturbed' = TRUE
  /\ UNCHANGED <<abortRef, aborted, pc, pend, cur, sent, delivered>>

\* the generator of the live run r throws: run's catch clause
Throw(r, name, message) ==
  /\ state' = catchClause(state, name, message)
  /\ last' = catchActs(r, name)
  /\ pc' = [pc EXCEPT ![r] = "failed"]
  /\ UNCHANGED <<abortRef, aborted, pend, cur, sent, delivered, disturbed>>

\* the response arrives with a success status: the generator takes the reader
FetchOk(r) ==
  /\ pc[r] = "fetching"
  /\ pc' = [pc EXCEPT ![r] = "reading"]
  /\ last' = <<>>
  /\ UNCHANGED <<state, abortRef, aborted, pend, cur, sent, delivered, disturbed>>

\* fetch rejects, or the response has a non-success status
FetchFail(r, message) ==
  /\ pc[r] = "fetching"
  /\ Throw(r, "Error", message)

\* a read rejects while the stream is open
ReadFail(r) ==
  /\ pc[r] = "reading"
  /\ Throw(r, "TypeError", ReadError)

\* the server closes the stream: read resolves with done, the generator ends
StreamClose(r) ==
  /\ pc[r] = "reading"
  /\ pc' = [pc EXCEPT ![r] = "done"]
  /\ last' = <<>>
  /\ UNCHANGED <<state, abortRef, aborted, pend, cur, sent, delivered, disturbed>>

\* run r's function continues from state s with the lines fr still to classify
Resume(r, s, fr, acts) ==
  \E out \in {dispatchLoop(s, fr, delivered, acts, r, aborted[r])} :
    /\ state' = out.s
    /\ pc' = [pc EXCEPT ![r] = out.pc]
    /\ cur' = [cur EXCEPT ![r] = out.cur]
    /\ pend' = [pend EXCEPT ![r] = out.pend]
    /\ delivered' = out.dl
    /\ last' = out.acts

\* a chunk with complete lines arrives
Chunk(r) ==
  /\ pc[r] = "reading"
  /\ \E fr \in SeqsUpTo(Frames(r), MaxEvents - sent) :
       /\ sent' = sent + Len(fr)
       /\ Resume(r, state, fr, <<>>)
  /\ UNCHANGED <<abortRef, aborted, disturbed>>

\* the timer fires and the loop takes the next event before NODE_DONE is
\* dispatched (mutant)
TimerFire_doneAfter(r) ==
  /\ pc[r] = "pacing"
  /\ \E out \in {dispatchLoop(state, pend[r], delivered, <<>>, r, aborted[r])} :
       /\ state' = reducerNODE_DONE(out.s, cur[r].node, cur[r].val)
       /\ pc' = [pc EXCEPT ![r] = out.pc]
       /\ cur' = [cur EXCEPT ![r] = out.cur]
       /\ pend' = [pend EXCEPT ![r] = out.pend]
       /\ delivered' = out.dl
       /\ last' = Append(out.acts, Act(r, "NODE_DONE"))
  /\ disturbed' = (disturbed \/ aborted[r])
  /\ UNCHANGED <<abortRef, aborted, sent>>

\* the 400 ms timer fires: NODE_DONE, then the loop asks for the next event
TimerFire(r) ==
  /\ pc[r] = "pacing"
  /\ Resume(r, reducerNODE_DONE(state, cur[r].node, cur[r].val), pend[r],
            <<Act(r, "NODE_DONE")>>)
  /\ disturbed' = (disturbed \/ aborted[r])
  /\ UNCHANGED <<abortRef, aborted, sent>>

\* =========================================================== lib/chatApi
MaxLines == 3

\* characters of the response text; a JSON member is one character
NL == "\n"
Whitespace == {" ", "\r"}
DataPrefix == <<"d", "a", "t", "a", ":">>

\* the kinds of line a response is built from, and their text
LineKinds == {"X", "Y", "E", "T", "bad", "note"}

LineText(kind) ==
  CASE kind = "X" -> DataPrefix \o <<"{", "cX", "dF", "}">>        \* data:{"content":"X","done":false}
    [] kind = "Y" -> <<" ">> \o DataPrefix \o <<" ", "{", "cY", "}", "\r">> \* indented, CR, no done member
    [] kind = "E" -> DataPrefix \o <<"{", "c0", "dF", "}">>        \* data:{"content":"","done":false}
    [] kind = "T" -> DataPrefix \o <<"{", "c0", "dT", "}">>        \* data:{"content":"","done":true}
    [] kind = "bad" -> DataPrefix \o <<"{", "cX">>                 \* data:{"content":"X"   (cut short)
    [] OTHER -> <<"d", "a", "t", "a">>                             \* a line that is not a data: line

RECURSIVE TextOf(_, _)
TextOf(lines, terminated) ==
  IF lines = <<>> THEN <<>>
  ELSE IF Len(lines) = 1
    THEN LineText(lines[1]) \o (IF terminated THEN <<NL>> ELSE <<>>)
  ELSE LineText(Head(lines)) \o <<NL>> \o TextOf(Tail(lines), terminated)

\* String.prototype.split("\n"): always at least one piece
RECURSIVE split(_)
split(text) ==
  LET nl == {j \in 1..Len(text) : text[j] = NL} IN
  IF nl = {} THEN <<text>>
  ELSE LET i == CHOOSE j \in nl : \A k \in nl : j <= k
       IN <<SubSeq(text, 1, i - 1)>> \o split(SubSeq(text, i + 1, Len(text)))

\* String.prototype.trim
RECURSIVE trim(_)
trim(str) ==
  IF str = <<>> THEN str
  ELSE IF Head(str) \in Whitespace THEN trim(Tail(str))
  ELSE IF str[Len(str)] \in Whitespace THEN trim(SubSeq(str, 1, Len(str) - 1))
  ELSE str

startsWith(str, prefix) ==
  Len(str) >= Len(prefix) /\ SubSeq(str, 1, Len(prefix)) = prefix

slice(str, n) == SubSeq(str, n + 1, Len(str))

ContentMembers == {"cX", "cY", "c0"}
DoneMembers == {"dT", "dF"}

ContentValue(member) ==
  CASE member = "cX" -> "X" [] member = "cY" -> "Y" [] OTHER -> ""

\* JSON.parse of a payload, with the two members the decoder reads;
\* Null stands for undefined, ok = FALSE for a SyntaxError
JSONparse(payload) ==
  LET n == Len(payload)
      body == SubSeq(payload, 2, n - 1)
      wellFormed ==
        /\ n >= 2 /\ payload[1] = "{" /\ payload[n] = "}"
        /\ \/ body = <<>>
           \/ Len(body) = 1 /\ body[1] \in ContentMembers \cup DoneMembers
           \/ Len(body) = 2 /\ body[1] \in ContentMembers /\ body[2] \in DoneMembers
  IN IF ~wellFormed THEN [ok |-> FALSE, content |-> Null, done |-> FALSE]
     ELSE [ok |-> TRUE,
           content |-> IF body # <<>> /\ body[1] \in ContentMembers
                         THEN ContentValue(body[1]) ELSE Null,
           done |-> body # <<>> /\ body[Len(body)] = "dT"]

\* the truthiness test of  if (parsed.content)
Truthy(v) == v # Null /\ v # ""

\* what a done member does to a parsed frame (mutant: it is ignored)
frameOf_ignoresDone(line) ==
  LET trimmed == trim(line)
      parsed == JSONparse(trim(slice(trimmed, 5)))
  IN IF ~startsWith(trimmed, DataPrefix) THEN [act |-> "skip", content |-> Null]
     ELSE IF ~parsed.ok THEN [act |-> "skip", content |-> Null]
     ELSE IF Truthy(parsed.content) THEN [act |-> "yield", content |-> parsed.content]
     ELSE [act |-> "skip", content |-> Null]

\* what a payload that does not parse does (mutant: it ends the generator)
frameOf_badReturns(line) ==
  LET trimmed == trim(line)
      parsed == JSONparse(trim(slice(trimmed, 5)))
  IN IF ~startsWith(trimmed, DataPrefix) THEN [act |-> "skip", content |-> Null]
     ELSE IF ~parsed.ok THEN [act |-> "return", content |-> Null]
     ELSE IF parsed.done THEN [act |-> "return", content |-> Null]
     ELSE IF Truthy(parsed.content) THEN [act |-> "yield", content |-> parsed.content]
     ELSE [act |-> "skip", content |-> Null]

\* the body of the for loop for one line: trim, prefix test, parse, and
\* what the generator does with the result
frameOf(line) ==
  LET trimmed == trim(line)
      parsed == JSONparse(trim(slice(trimmed, 5)))
  IN IF ~startsWith(trimmed, DataPrefix) THEN [act |-> "skip", content |-> Null]
     ELSE IF ~parsed.ok THEN [act |-> "skip", content |-> Null]
     ELSE IF parsed.done THEN [act |-> "return", content |-> Null]
     ELSE IF Truthy(parsed.content) THEN [act |-> "yield", content |-> parsed.content]
     ELSE [act |-> "skip", content |-> Null]

\* the for loop over the complete lines of one chunk
RECURSIVE forLines(_, _)
forLines(lines, out) ==
  IF lines = <<>> THEN [yielded |-> out, returned |-> FALSE]
  ELSE LET f == frameOf(Head(lines))
       IN IF f.act = "return" THEN [yielded |-> out, returned |-> TRUE]
          ELSE IF f.act = "yield" THEN forLines(Tail(lines), Append(out, f.content))
          ELSE forLines(Tail(lines), out)

\* the fragment after the last newline is lost (mutant)
popBuffer_dropped(lines) == <<>>

\* lines.pop() ?? "": the fragment after the last newline stays in the buffer
popBuffer(lines) == lines[Len(lines)]

\* the chunk replaces the buffer instead of being appended to it (mutant)
feedChunk_overwrites(buf, chunk, out) ==
  LET lines == split(chunk)
      res == forLines(SubSeq(lines, 1, Len(lines) - 1), out)
  IN [buffer |-> popBuffer(lines), yielded |-> res.yielded, returned |-> res.returned]

\* one iteration of the while loop for a chunk that was read
feedChunk(buf, chunk, out) ==
  LET lines == split(buf \o chunk)
      res == forLines(SubSeq(lines, 1, Len(lines) - 1), out)
  IN [buffer |-> popBuffer(lines), yielded |-> res.yielded, returned |-> res.returned]

VARIABLES
  chInput,     \* the response: its lines and whether the last one is terminated
  wire,        \* text the server has not sent yet
  buffer,      \* streamChat's buffer
  yielded,     \* history: the values streamChat has yielded
  chPc,        \* "idle", "reading", "returned" (done frame), "ended" (end of input),
               \* "threw" (a read rejected), "abandoned" (the consumer left at a yield)
  released,    \* number of reader.releaseLock() calls
  carried,     \* history: a read has left an unfinished line in the buffer
  emptyRead    \* history: a read has resolved with a zero-length chunk

chatVars == <<chInput, wire, buffer, yielded, chPc, released, carried, emptyRead>>

ChatInputs ==
  {[lines |-> l, terminated |-> t] : l \in SeqsUpTo(LineKinds, MaxLines), t \in BOOLEAN}

ChatIdle ==
  /\ chInput = [lines |-> <<>>, terminated |-> TRUE]
  /\ wire = <<>> /\ buffer = <<>> /\ yielded = <<>>
  /\ chPc = "idle" /\ released = 0 /\ carried = FALSE /\ emptyRead = FALSE

\* streamChat up to the first read: the response is ok and the reader is taken
ChatStart ==
  /\ chInput \in ChatInputs
  /\ wire = TextOf(chInput.lines, chInput.terminated)
  /\ buffer = <<>> /\ yielded = <<>>
  /\ chPc = "reading" /\ released = 0 /\ carried = FALSE /\ emptyRead = FALSE

\* the finally clause that closes the reading loop (mutant: it is missing)
releaseLock_never(n) == n

\* the finally clause that closes the reading loop: reader.releaseLock()
releaseLock(n) == n + 1

\* reader.read() resolves with a chunk of k characters
ChatRead(k) ==
  /\ chPc = "reading" /\ k <= Len(wire)
  /\ \E out \in {feedChunk(buffer, SubSeq(wire, 1, k), yielded)} :
       /\ buffer' = out.buffer
       /\ yielded' = out.yielded
       /\ chPc' = IF out.returned THEN "returned" ELSE "reading"
       /\ released' = IF out.returned THEN releaseLock(released) ELSE released
       /\ carried' = (carried \/ out.buffer # <<>>)
  /\ wire' = SubSeq(wire, k + 1, Len(wire))
  /\ UNCHANGED <<chInput, emptyRead>>

\* reader.read() resolves with a zero-length chunk, and the fact is recorded
ChatReadEmpty ==
  /\ chPc = "reading"
  /\ \E out \in {feedChunk(buffer, <<>>, yielded)} :
       /\ buffer' = out.buffer
       /\ yielded' = out.yielded
       /\ chPc' = IF out.returned THEN "returned" ELSE "reading"
       /\ released' = IF out.returned THEN releaseLock(released) ELSE released
       /\ carried' = (carried \/ out.buffer # <<>>)
  /\ emptyRead' = TRUE
  /\ UNCHANGED <<chInput, wire>>

\* reader.read() resolves with done and the text left in the buffer is
\* decoded as a last line (mutant)
ChatEnd_flushes ==
  /\ chPc = "reading" /\ wire = <<>>
  /\ \E out \in {feedChunk(buffer, <<NL>>, yielded)} :
       /\ yielded' = out.yielded
       /\ chPc' = IF out.returned THEN "returned" ELSE "ended"
  /\ released' = releaseLock(released)
  /\ UNCHANGED <<chInput, wire, buffer, carried, emptyRead>>

\* reader.read() resolves with done: break, then finally
ChatEnd ==
  /\ chPc = "reading" /\ wire = <<>>
  /\ chPc' = "ended" /\ released' = releaseLock(released)
  /\ UNCHANGED <<chInput, wire, buffer, yielded, carried, emptyRead>>

\* reader.read() rejects: the error leaves the generator through finally
ChatReadFail ==
  /\ chPc = "reading"
  /\ chPc' = "threw" /\ released' = releaseLock(released)
  /\ UNCHANGED <<chInput, wire, buffer, yielded, carried, emptyRead>>

\* reader.read() resolves with a chunk of k characters and, at one of the
\* values this chunk makes the generator yield, the consumer leaves its loop:
\* the generator is closed where it is suspended, at the yield, and runs finally
ChatAbandon(k) ==
  /\ chPc = "reading" /\ k <= Len(wire)
  /\ \E out \in {feedChunk(buffer, SubSeq(wire, 1, k), yielded)} :
       /\ \E n \in (Len(yielded) + 1)..Len(out.yielded) :
            yielded' = SubSeq(out.yielded, 1, n)
       /\ buffer' = out.buffer
       /\ carried' = (carried \/ out.buffer # <<>>)
  /\ chPc' = "abandoned" /\ released' = releaseLock(released)
  /\ wire' = SubSeq(wire, k + 1, Len(wire))
  /\ UNCHANGED <<chInput, emptyRead>>

\* ============================================================= ChatPanel
\* One step is one task, as for useOptimize. streamChat is taken here by what
\* it gives its consumer: values yielded one by one, then its end, or an error
\* thrown by fetch or by a read.
VARIABLES
  messages,       \* useState: the list of chat messages
  input,          \* useState: the text of the input box
  streaming,      \* useState: the streaming flag
  streamingText,  \* useState: the text shown while streaming, as the values so far
  error,          \* useState: the error message or Null
  rendered,       \* what the sendMessage of the latest render has captured:
                  \* input, messages and streaming (useCallback dependencies)
  chatAbortRef,   \* abortRef.current: the turn whose controller is stored, 0 = null
  chatAborted,    \* chatAborted[t]: ctrl.signal.aborted of turn t's controller
  turnPc,         \* where turn t's sendMessage is suspended, or how it ended: unused,
                  \* fetching, reading, done, failed, cancelled
  fullResponse,   \* fullResponse[t]: the local variable of turn t's sendMessage
  chunksSent      \* number of values yielded so far, on all turns

panelVars ==
  <<messages, input, streaming, streamingText, error, rendered, chatAbortRef,
    chatAborted, turnPc, fullResponse, chunksSent>>

vars == <<optVars, chatVars, panelVars>>

Turns == 1..MaxRuns

\* what the user can have typed
InputTexts == {<<>>, <<" ">>, <<" ", "h", "i">>}

\* the values the stream of turn t can yield, tagged with the turn
ChunkTexts(t) == {<<t, "a">>, <<t, "b">>}

ChatErrors == {"HTTP 500", "Failed to fetch"}

UserMessage(text) == [role |-> "user", content |-> text]
AssistantMessage(text) == [role |-> "assistant", content |-> text]

Snapshot(i, m, s) == [input |-> i, messages |-> m, streaming |-> s]

PanelInit ==
  /\ messages = <<>> /\ input = <<>> /\ streaming = FALSE /\ streamingText = <<>>
  /\ error = Null /\ rendered = Snapshot(<<>>, <<>>, FALSE)
  /\ chatAbortRef = 0
  /\ chatAborted = [t \in Turns |-> FALSE]
  /\ turnPc = [t \in Turns |-> "unused"]
  /\ fullResponse = [t \in Turns |-> <<>>]
  /\ chunksSent = 0

\* the component renders: sendMessage is created again with the current values
Render ==
  /\ rendered # Snapshot(input, messages, streaming)
  /\ rendered' = Snapshot(input, messages, streaming)
  /\ UNCHANGED <<messages, input, streaming, streamingText, error, chatAbortRef,
                 chatAborted, turnPc, fullResponse, chunksSent>>

\* the user edits the input box
TypeInput(text) ==
  /\ input' = text
  /\ UNCHANGED <<messages, streaming, streamingText, error, rendered, chatAbortRef,
                 chatAborted, turnPc, fullResponse, chunksSent>>

UnusedTurns == {t \in Turns : turnPc[t] = "unused"}

\* the turn whose pending fetch or read abortRef.current?.abort() rejects
InterruptedTurns ==
  {t \in Turns : t = chatAbortRef /\ ~chatAborted[t] /\ turnPc[t] \in {"fetching", "reading"}}

\* the finally clause of sendMessage: setStreaming(false); setStreamingText("")
finallyStreaming == FALSE
finallyStreamingText == <<>>

\* sendMessage(), as created by the latest render, up to its first await; the
\* turn its abort() interrupts reaches its catch clause, which returns on an
\* AbortError, and then its finally clause, in the microtasks of the same task
sendMessage ==
  LET text == trim(rendered.input) IN
  /\ text # <<>> /\ ~rendered.streaming
  /\ UnusedTurns # {}
  /\ LET t == CHOOSE x \in UnusedTurns : \A y \in UnusedTurns : x <= y IN
       /\ input' = <<>>
       /\ error' = Null
       /\ messages' = Append(rendered.messages, UserMessage(text))
       /\ streaming' = IF InterruptedTurns # {} THEN finallyStreaming ELSE TRUE
       /\ streamingText' = IF InterruptedTurns # {} THEN finallyStreamingText ELSE <<>>
       /\ chatAborted' = [o \in Turns |-> chatAborted[o] \/ o = chatAbortRef]
       /\ chatAbortRef' = t
       /\ turnPc' = [o \in Turns |->
            IF o = t THEN "fetching"
            ELSE IF o \in InterruptedTurns THEN "cancelled" ELSE turnPc[o]]
  /\ UNCHANGED <<rendered, fullResponse, chunksSent>>

\* fetch resolves with a success status: streamChat takes the reader
TurnFetchOk(t) ==
  /\ turnPc[t] = "fetching"
  /\ turnPc' = [turnPc EXCEPT ![t] = "reading"]
  /\ UNCHANGED <<messages, input, streaming, streamingText, error, rendered,
                 chatAbortRef, chatAborted, fullResponse, chunksSent>>

\* a catch clause that keeps the text received so far as an assistant message
\* (mutant)
TurnThrow_keepsPartial(t, message) ==
  /\ turnPc[t] \in {"fetching", "reading"}
  /\ error' = message
  /\ messages' = IF fullResponse[t] = <<>> THEN messages
                 ELSE Append(messages, AssistantMessage(fullResponse[t]))
  /\ streaming' = finallyStreaming
  /\ streamingText' = finallyStreamingText
  /\ turnPc' = [turnPc EXCEPT ![t] = "failed"]
  /\ UNCHANGED <<input, rendered, chatAbortRef, chatAborted, fullResponse, chunksSent>>

\* streamChat throws an error that is not an AbortError (fetch rejects, the
\* status is not a success, a read rejects): catch stores it, then finally
TurnThrow(t, message) ==
  /\ turnPc[t] \in {"fetching", "reading"}
  /\ error' = message
  /\ streaming' = finallyStreaming
  /\ streamingText' = finallyStreamingText
  /\ turnPc' = [turnPc EXCEPT ![t] = "failed"]
  /\ UNCHANGED <<messages, input, rendered, chatAbortRef, chatAborted, fullResponse,
                 chunksSent>>

\* streamChat yields a value: the body of the for-await loop
TurnChunk(t, chunk) ==
  /\ turnPc[t] = "reading" /\ chunksSent < MaxEvents
  /\ chunksSent' = chunksSent + 1
  /\ fullResponse' = [fullResponse EXCEPT ![t] = Append(@, chunk)]
  /\ streamingText' = Append(fullResponse[t], chunk)
  /\ UNCHANGED <<messages, input, streaming, error, rendered, chatAbortRef, chatAborted,
                 turnPc>>

\* streamChat ends: the assistant message is appended, then finally
TurnEnd(t) ==
  /\ turnPc[t] = "reading"
  /\ messages' = Append(messages, AssistantMessage(fullResponse[t]))
  /\ streaming' = finallyStreaming
  /\ streamingText' = finallyStreamingText
  /\ turnPc' = [turnPc EXCEPT ![t] = "done"]
  /\ UNCHANGED <<input, error, rendered, chatAbortRef, chatAborted, fullResponse,
                 chunksSent>>

\* ------------------------------------- streamChat, a response it refuses
\* the status of a response, and what its body holds: nothing (res.body is
\* null), text that is not JSON, a JSON object with a string as detail, a JSON
\* object without detail, a JSON object whose detail is null, the JSON value null
Statuses == {200, 404, 500}
Bodies == {"none", "text", "detail", "no_detail", "detail_null", "null"}

Undefined == "undefined"
DetailText == "Rate limit exceeded"
NullTypeError == "Cannot read properties of null (reading 'detail')"

\* res.ok
ok(status) == status \in 200..299

\* `HTTP ${res.status}`
HttpStatus(status) == "HTTP " \o ToString(status)

\* res.json(): rejects when there is no body or the text is not JSON
jsonRejects(body) == body \in {"none", "text"}

\* the value res.json() resolves with: an object with its detail member, or null
JsonObject(detail) == [type |-> "object", detail |-> detail]
JsonNull == [type |-> "null", detail |-> Undefined]

json(body) ==
  CASE body = "detail" -> JsonObject(DetailText)
    [] body = "no_detail" -> JsonObject(Undefined)
    [] body = "detail_null" -> JsonObject(Null)
    [] OTHER -> JsonNull

\* a ?? b
nullish(a, b) == IF a \in {Null, Undefined} THEN b ELSE a

\* the error lines 68-71 throw for a response that is not ok or has no body:
\* reading detail of the value null is a TypeError
notOkError(status, body) ==
  LET err == IF jsonRejects(body) THEN JsonObject(HttpStatus(status)) ELSE json(body)
  IN IF err.type = "null" THEN [name |-> "TypeError", message |-> NullTypeError]
     ELSE [name |-> "Error", message |-> nullish(err.detail, HttpStatus(status))]

\* fetch resolves with a response that streamChat refuses: it throws before it
\* takes the reader, and sendMessage's catch stores the message
TurnNotOk(t, status, body) ==
  /\ ~ok(status) \/ body = "none"
  /\ turnPc[t] = "fetching"
  /\ TurnThrow(t, notOkError(status, body).message)

\* ---------------------------------------------------------- specifications
Next ==
  \/ Run /\ UNCHANGED <<chatVars, panelVars>>
  \/ Reset /\ UNCHANGED <<chatVars, panelVars>>
  \/ \E tab \in TabChoices : SetTab(tab) /\ UNCHANGED <<chatVars, panelVars>>
  \/ \E provider \in LLMProvider : SetProvider(provider) /\ UNCHANGED <<chatVars, panelVars>>
  \/ \E r \in Runs : FetchOk(r) /\ UNCHANGED <<chatVars, panelVars>>
  \/ \E r \in Runs, m \in FetchErrors : FetchFail(r, m) /\ UNCHANGED <<chatVars, panelVars>>
  \/ \E r \in Runs : ReadFail(r) /\ UNCHANGED <<chatVars, panelVars>>
  \/ \E r \in Runs : StreamClose(r) /\ UNCHANGED <<chatVars, panelVars>>
  \/ \E r \in Runs : Chunk(r) /\ UNCHANGED <<chatVars, panelVars>>
  \/ \E r \in Runs : TimerFire(r) /\ UNCHANGED <<chatVars, panelVars>>

Init == OptInit /\ ChatIdle /\ PanelInit

Spec == Init /\ [][Next]_vars

ChatInit == OptInit /\ ChatStart /\ PanelInit

ChatNext ==
  \/ \E k \in 0..Len(wire) : ChatRead(k) /\ UNCHANGED <<optVars, panelVars>>
  \/ ChatEnd /\ UNCHANGED <<optVars, panelVars>>
  \/ ChatReadFail /\ UNCHANGED <<optVars, panelVars>>

ChatSpec == ChatInit /\ [][ChatNext]_vars

\* streamChat with a consumer that may leave its loop at any value
ChatCloseNext ==
  \/ \E k \in 0..Len(wire) : ChatRead(k) /\ UNCHANGED <<optVars, panelVars>>
  \/ ChatEnd /\ UNCHANGED <<optVars, panelVars>>
  \/ ChatReadFail /\ UNCHANGED <<optVars, panelVars>>
  \/ \E k \in 1..Len(wire) : ChatAbandon(k) /\ UNCHANGED <<optVars, panelVars>>

ChatCloseSpec == ChatInit /\ [][ChatCloseNext]_vars

\* streamChat with the zero-length chunks it reads recorded
ChatEmptyNext ==
  \/ \E k \in 1..Len(wire) : ChatRead(k) /\ UNCHANGED <<optVars, panelVars>>
  \/ ChatReadEmpty /\ UNCHANGED <<optVars, panelVars>>
  \/ ChatEnd /\ UNCHANGED <<optVars, panelVars>>

ChatEmptySpec == ChatInit /\ [][ChatEmptyNext]_vars

PanelNext ==
  \/ Render /\ UNCHANGED <<optVars, chatVars>>
  \/ \E text \in InputTexts : TypeInput(text) /\ UNCHANGED <<optVars, chatVars>>
  \/ sendMessage /\ UNCHANGED <<optVars, chatVars>>
  \/ \E t \in Turns : TurnFetchOk(t) /\ UNCHANGED <<optVars, chatVars>>
  \/ \E t \in Turns, m \in ChatErrors : TurnThrow(t, m) /\ UNCHANGED <<optVars, chatVars>>
  \/ \E t \in Turns : \E c \in ChunkTexts(t) : TurnChunk(t, c) /\ UNCHANGED <<optVars, chatVars>>
  \/ \E t \in Turns : TurnEnd(t) /\ UNCHANGED <<optVars, chatVars>>

PanelSpec == Init /\ [][PanelNext]_vars


\* ChatPanel with the responses streamChat refuses
PanelResponseNext ==
  \/ PanelNext
  \/ \E t \in Turns, st \in Statuses, b \in Bodies :
       TurnNotOk(t, st, b) /\ UNCHANGED <<optVars, chatVars>>

PanelResponseSpec == Init /\ [][PanelResponseNext]_vars

\* ================================================================ claims
NodeOf(s, id) == s.nodes[CHOOSE i \in DOMAIN s.nodes : s.nodes[i].id = id]

Progress(node, r) == [kind |-> "node", node |-> node, val |-> r]
Result(r) == [kind |-> "result", node |-> "-", val |-> r]

\* the actions run r dispatched in the latest step
ActsOf(r, l) == {i \in DOMAIN l : l[i].run = r}

\* C1: once reset() has aborted a run and no new run has started, that run
\* dispatches no further action and its steps leave the state as it is.
C1_SuppressedAfterReset ==
  [][\A r \in Runs : (aborted[r] /\ abortRef = r) =>
        /\ ActsOf(r, last') = {}
        /\ (pc'[r] # pc[r] => state' = state)]_vars

\* C2: once a later run() has replaced a run, the replaced run dispatches no
\* further action.
C2_Supersession ==
  [][\A r \in Runs : (pc[r] # "unused" /\ abortRef # r) => ActsOf(r, last') = {}]_vars

\* C3: phase changes only idle->streaming and complete/error->streaming (by
\* run), streaming->complete, streaming->error, and streaming/complete/error
\* ->idle (by reset).
C3_PhaseTransitions ==
  [][\/ state'.phase = state.phase
     \/ state.phase \in {"idle", "complete", "error"} /\ state'.phase = "streaming" /\ Run
     \/ state.phase = "streaming" /\ state'.phase \in {"complete", "error"}
     \/ state.phase \in {"streaming", "complete", "error"} /\ state'.phase = "idle" /\ Reset
    ]_vars

\* C4: after the server has closed the stream of a run that was not cancelled
\* and got no Result, phase is error and a message is stored.
C4_ClosedStreamFails ==
  \A r \in Runs :
    (pc[r] = "done" /\ ~aborted[r] /\ \A i \in DOMAIN delivered : delivered[i].kind # "result")
      => (state.phase = "error" /\ state.error # Null)

\* C5: a transport failure of a live run dispatches exactly one action, an
\* ERROR, which leaves phase error with the failure message stored, and ends
\* the run: it dispatches nothing afterwards.
C5_TransportFailure ==
  [][\A r \in Runs :
       /\ (pc[r] \in {"fetching", "reading"} /\ pc'[r] = "failed") =>
            /\ last' = <<Act(r, "ERROR")>>
            /\ state'.phase = "error"
            /\ pc[r] = "fetching" => state'.error \in FetchErrors
            /\ pc[r] = "reading" => state'.error = ReadError
       /\ (\A m \in FetchErrors : FetchFail(r, m) => (pc'[r] = "failed" /\ state'.error = m))
       /\ (ReadFail(r) => pc'[r] = "failed")
       /\ (pc[r] = "failed" => ActsOf(r, last') = {})]_vars

C5_Witness ==
  \E r \in Runs :
    /\ pc[r] = "failed" /\ last = <<Act(r, "ERROR")>> /\ delivered # <<>>
    /\ state.phase = "error" /\ state.error = ReadError

\* C6: a run whose controller is aborted dispatches no ERROR, and the step in
\* which a run ends by its abort neither moves phase to error nor sets error.
C6_CancellationSilent ==
  [][\A r \in Runs :
       /\ aborted'[r] => \A i \in ActsOf(r, last') : last'[i].type # "ERROR"
       /\ (pc'[r] = "cancelled" /\ pc[r] # "cancelled") =>
            /\ state'.phase = "error" => state.phase = "error"
            /\ state'.error \in {Null, state.error}]_vars

\* a run whose fetch or read reset() has interrupted: RESET is the only action
\* of that step
C6_Witness ==
  \E r \in Runs :
    /\ pc[r] = "cancelled" /\ abortRef = r /\ aborted[r]
    /\ last = <<Act(0, "RESET")>> /\ state = initialState

\* Scenario A: run r, uncancelled and alone, got Progress(router) then Result
\* and its stream has ended
ScenarioA(r) ==
  /\ pc[r] \in {"done", "sentinel"} /\ r = abortRef /\ ~aborted[r] /\ ~disturbed
  /\ delivered = <<Progress("router", r), Result(r)>>

\* C7 as stated: after Scenario A router is active, every other node pending
\* and phase complete.
C7_ScenarioA_RouterActive ==
  \A r \in Runs : ScenarioA(r) =>
    /\ state.phase = "complete"
    /\ NodeOf(state, "router").status = "active"
    /\ \A n \in NodeName \ {"router"} : NodeOf(state, n).status = "pending"

\* C7 amended: after Scenario A router is done and holds the event's data,
\* every other node is pending and phase is complete with the result stored.
C7_ScenarioA_RouterDone ==
  \A r \in Runs : ScenarioA(r) =>
    /\ state.phase = "complete" /\ state.result = r
    /\ NodeOf(state, "router").status = "done" /\ NodeOf(state, "router").data = r
    /\ \A n \in NodeName \ {"router"} :
         NodeOf(state, n).status = "pending" /\ NodeOf(state, n).data = NoValue

C7_Witness == \E r \in Runs : ScenarioA(r)

\* ------------------------------------------------------------ chat claims
ChatTerminal == chPc \in {"ended", "returned"}

IsPrefix(p, q) == Len(p) <= Len(q) /\ SubSeq(q, 1, Len(p)) = p

\* streamChat fed the whole text as one chunk
WholeText(text) == feedChunk(<<>>, text, <<>>)

\* C8: however the text is cut into chunks, streamChat yields what it yields
\* for the text as one chunk, and ends on a done frame in the same cases.
C8_ChunkInvariance ==
  chPc # "idle" =>
    LET w == WholeText(TextOf(chInput.lines, chInput.terminated)) IN
      /\ IsPrefix(yielded, w.yielded)
      /\ ChatTerminal => (yielded = w.yielded /\ (chPc = "returned") = w.returned)

C8_Witness ==
  chPc = "ended" /\ carried /\ Len(yielded) >= 2 /\ yielded[1] # yielded[2]

\* the lines of the response that end in a newline: the frames
CompleteLines ==
  IF chInput.terminated THEN chInput.lines
  ELSE SubSeq(chInput.lines, 1, Len(chInput.lines) - 1)

KindContent(kind) ==
  CASE kind = "X" -> "X" [] kind = "Y" -> "Y" [] OTHER -> ""

\* the content of the well-formed frames before the first done=true frame
RECURSIVE ContentsUntilDone(_, _)
ContentsUntilDone(frames, withEmpty) ==
  IF frames = <<>> \/ Head(frames) = "T" THEN <<>>
  ELSE IF Head(frames) \in {"X", "Y"} \/ (withEmpty /\ Head(frames) = "E")
    THEN <<KindContent(Head(frames))>> \o ContentsUntilDone(Tail(frames), withEmpty)
  ELSE ContentsUntilDone(Tail(frames), withEmpty)

HasDone(frames) == \E i \in DOMAIN frames : frames[i] = "T"

\* C9 as stated: streamChat yields the content of every well-formed frame
\* before the first done=true frame, and ends there.
C9_YieldsEveryContent ==
  ChatTerminal =>
    /\ yielded = ContentsUntilDone(CompleteLines, TRUE)
    /\ (chPc = "returned") = HasDone(CompleteLines)

\* C9 amended: streamChat yields the non-empty content of the well-formed
\* frames before the first done=true frame, and ends there: nothing of the
\* text after that frame is yielded.
C9_YieldsContentUntilDone ==
  ChatTerminal =>
    /\ yielded = ContentsUntilDone(CompleteLines, FALSE)
    /\ (chPc = "returned") = HasDone(CompleteLines)

C9_Witness ==
  chPc = "returned" /\ wire # <<>> /\ yielded # <<>>

RECURSIVE WithoutBad(_)
WithoutBad(frames) ==
  IF frames = <<>> THEN <<>>
  ELSE IF Head(frames) = "bad" THEN WithoutBad(Tail(frames))
  ELSE <<Head(frames)>> \o WithoutBad(Tail(frames))

\* C10: malformed frames change nothing: what is yielded, and whether the
\* stream ends on a done frame or at end of input, is what the same response
\* without its malformed frames gives.
C10_MalformedSkipped ==
  ChatTerminal =>
    LET w == WholeText(TextOf(WithoutBad(CompleteLines), TRUE)) IN
      /\ yielded = w.yielded
      /\ (chPc = "returned") = w.returned

C10_Witness ==
  /\ chPc = "ended" /\ chInput.lines = <<"X", "bad", "Y">>
  /\ yielded = <<"X", "Y">>

\* C11: once streamChat holds the reader, the lock is released exactly once
\* on every way out (end of input, done frame, rejected read, consumer
\* leaving at a yield) and not before.
C11_ReleasedExactlyOnce ==
  /\ chPc = "reading" => released = 0
  /\ chPc \in {"ended", "returned", "threw", "abandoned"} => released = 1

\* the consumer left at the first value while more text was still to come
C11_Witness ==
  chPc = "abandoned" /\ released = 1 /\ yielded # <<>> /\ wire # <<>>

\* C16: a zero-length chunk is a no-op: in every state in which streamChat
\* waits for a read, decoding an empty chunk yields nothing, does not end the
\* generator and leaves the buffer as it is; so a stream in which empty chunks
\* were read yields what the text yields as one chunk.
C16_EmptyChunkNoOp ==
  /\ chPc = "reading" =>
        feedChunk(buffer, <<>>, yielded)
          = [buffer |-> buffer, yielded |-> yielded, returned |-> FALSE]
  /\ (ChatTerminal /\ emptyRead) =>
        LET w == WholeText(TextOf(chInput.lines, chInput.terminated)) IN
          yielded = w.yielded /\ (chPc = "returned") = w.returned

\* an empty chunk was read while an unfinished line was in the buffer
C16_Witness ==
  chPc = "reading" /\ emptyRead /\ buffer # <<>> /\ yielded # <<>> /\ wire # <<>>

\* C12: at most one optimize session is un-cancelled at any time: every run
\* that was started and whose controller is not aborted is the run of
\* abortRef; run() starts its request in the step of the call (no queue),
\* with the controller stored before aborted.
C12_OneLiveSession ==
  [][/\ \A r \in Runs : (pc'[r] # "unused" /\ ~aborted'[r]) => abortRef' = r
     /\ Run => /\ pc'[abortRef'] = "fetching" /\ ~aborted'[abortRef']
               /\ abortRef # 0 => aborted'[abortRef]
               /\ last'[1] = Act(abortRef', "START")]_vars

\* a second run was started while the first was still in its pacing delay
C12_Witness ==
  \E r1, r2 \in Runs :
    /\ r1 # r2 /\ abortRef = r2 /\ ~aborted[r2] /\ pc[r2] = "fetching"
    /\ aborted[r1] /\ pc[r1] = "pacing"

\* the moves of a node's status the specification allows within a run
StatusStep(a, b) ==
  \/ a = b
  \/ <<a, b>> \in {<<"pending", "active">>, <<"active", "done">>, <<"active", "error">>}

MonotonicStep(s, t) ==
  \A i \in DOMAIN s.nodes : StatusStep(s.nodes[i].status, t.nodes[i].status)

\* the state between the NODE_DONE a step starts with and what the loop
\* dispatches after it in the same step
AfterNodeDone ==
  IF last' # <<>> /\ last'[1].type = "NODE_DONE"
    THEN reducerNODE_DONE(state, cur[last'[1].run].node, cur[last'[1].run].val)
    ELSE state

\* C13: within one run every node's status only moves pending->active->done
\* or active->error, also when a node has more than one Progress event. Steps
\* of run() and reset(), of setProvider and of cancelled runs are left aside.
C13_StatusMonotonic ==
  [][(~disturbed' /\ (last' = <<>> \/ last'[1].type \notin {"START", "RESET"})) =>
       /\ MonotonicStep(state, AfterNodeDone)
       /\ MonotonicStep(AfterNodeDone, state')]_vars

\* the events a step has delivered to the live run
NewlyDelivered == SubSeq(delivered', Len(delivered) + 1, Len(delivered'))

Unknown(ev) == ev.kind = "node" /\ ev.node \notin NodeName

\* what a sequence of events makes run r dispatch when the events with an
\* unknown node are left out, and the state it gives
RECURSIVE KnownActs(_, _)
KnownActs(evs, r) ==
  IF evs = <<>> THEN <<>>
  ELSE IF Unknown(Head(evs)) THEN KnownActs(Tail(evs), r)
  ELSE <<Act(r, IF Head(evs).kind = "result" THEN "COMPLETE" ELSE "NODE_ACTIVE")>>
         \o KnownActs(Tail(evs), r)

RECURSIVE KnownEffect(_, _)
KnownEffect(s, evs) ==
  IF evs = <<>> THEN s
  ELSE IF Unknown(Head(evs)) THEN KnownEffect(s, Tail(evs))
  ELSE IF Head(evs).kind = "result"
    THEN KnownEffect(reducerCOMPLETE(s, Head(evs).val), Tail(evs))
  ELSE KnownEffect(reducerNODE_ACTIVE(s, Head(evs).node), Tail(evs))

\* C14: a Progress event for a node outside the five NodeNames causes no
\* action and no change of state, and the events after it are processed: a
\* step that delivers events to the live run dispatches, after the NODE_DONE
\* it may start with, exactly the actions of the events with a known node or
\* a result, and its state is the one these actions give.
C14_UnknownNodeDropped ==
  [][(Len(delivered') > Len(delivered)) =>
       /\ last' = (IF pc[abortRef] = "pacing" THEN <<Act(abortRef, "NODE_DONE")>> ELSE <<>>)
                    \o KnownActs(NewlyDelivered, abortRef)
       /\ state' = KnownEffect(AfterNodeDone, NewlyDelivered)]_vars

\* an event for an unknown node was delivered, nothing was dispatched for it,
\* and the event after it has been processed
C14_Witness ==
  \E r \in Runs :
    /\ abortRef = r /\ ~aborted[r] /\ ~disturbed /\ pc[r] = "pacing"
    /\ delivered = <<Progress("unknown_node", r), Progress("router", r)>>
    /\ last = <<Act(r, "NODE_ACTIVE")>>
    /\ NodeOf(state, "router").status = "active" /\ state.activeTab = Null

\* C15: in every reachable state nodes holds exactly one record per NodeName,
\* in the order router, market_analyst, demand_forecaster, pricing_strategist,
\* revenue_manager, each with its own label.
C15_NodeSet ==
  /\ [i \in DOMAIN state.nodes |-> state.nodes[i].id] = NODE_ORDER
  /\ \A i \in DOMAIN state.nodes : state.nodes[i].label = NodeLabel[NODE_ORDER[i]]

\* a state reached through SET_PROVIDER, START, NODE_ACTIVE, NODE_DONE,
\* COMPLETE and SET_TAB
C15_Witness ==
  /\ state.phase = "complete" /\ state.activeTab = "pricing_strategist"
  /\ NodeOf(state, "router").status = "done"
  /\ NodeOf(state, "router").model = "G3 Flash"

\* C18: SET_PROVIDER changes only the model label of each node: in a phase
\* other than idle it leaves every node's status and data as they are, and in
\* every phase it leaves phase, result, error and activeTab as they are.
C18_ProviderChangesLabelsOnly ==
  [][(last' = <<Act(0, "SET_PROVIDER")>>) =>
       /\ state'.phase = state.phase /\ state'.result = state.result
       /\ state'.error = state.error /\ state'.activeTab = state.activeTab
       /\ state.phase # "idle" =>
            \A i \in DOMAIN state.nodes :
              /\ state'.nodes[i].status = state.nodes[i].status
              /\ state'.nodes[i].data = state.nodes[i].data]_vars

\* a focus only setTab can have produced since the latest START or RESET: both
\* clear activeTab, and no event names this node
CallerSelected(s) == s.activeTab \in TabChoices \ EventNodes

\* C19: NODE_DONE(node, data) sets the node's status to done and stores data,
\* leaves the other nodes as they are, and moves the focus to the node unless
\* the caller has selected a node since the run started: then that selection
\* is kept.
C19_NodeDoneKeepsSelection ==
  [][(last' # <<>> /\ last'[1].type = "NODE_DONE" /\ ~aborted[last'[1].run]) =>
       LET ev == cur[last'[1].run] IN
         /\ NodeOf(AfterNodeDone, ev.node).status = "done"
         /\ NodeOf(AfterNodeDone, ev.node).data = ev.val
         /\ \A m \in NodeName \ {ev.node} : NodeOf(AfterNodeDone, m) = NodeOf(state, m)
         /\ state'.activeTab = IF CallerSelected(state) THEN state.activeTab ELSE ev.node]_vars

\* C20: COMPLETE(result) sets phase to complete and stores the result, and
\* nothing else: in a step whose last action is COMPLETE (after the NODE_DONE
\* the step may start with), nodes, error and activeTab are as before it.
C20_CompleteChangesPhaseAndResult ==
  [][(last' # <<>> /\ last'[Len(last')].type = "COMPLETE") =>
       /\ state'.phase = "complete"
       /\ state'.result = last'[Len(last')].run
       /\ state'.nodes = AfterNodeDone.nodes
       /\ state'.error = AfterNodeDone.error
       /\ state'.activeTab = AfterNodeDone.activeTab]_vars

\* COMPLETE applied while every node is pending and the caller's focus is on
\* a node: nodes and focus are kept
C20_Witness ==
  \E r \in Runs :
    /\ last = <<Act(r, "COMPLETE")>> /\ state.phase = "complete" /\ state.result = r
    /\ \A n \in NodeName : NodeOf(state, n).status = "pending"
    /\ state.activeTab = "pricing_strategist"

\* ----------------------------------------------------- ChatPanel claims
\* C17: a chat turn that is aborted because sendMessage started a newer turn
\* changes nothing: after the step that cancels it the streaming flag and the
\* streaming text are those the newer turn has set, the list ends with the
\* newer turn's user message, and no error is stored.
C17_CancelledTurnSilent ==
  [][\A t \in Turns :
       (turnPc[t] \in {"fetching", "reading"} /\ turnPc'[t] = "cancelled") =>
         /\ streaming' = TRUE /\ streamingText' = <<>>
         /\ messages' = Append(rendered.messages, UserMessage(trim(rendered.input)))
         /\ error' = Null]_vars

\* C21: reset(), from any state, leaves phase idle, every node pending and
\* without data, and result, error and selection cleared; and it aborts the
\* controller of the current run before it dispatches RESET: RESET is the
\* first action of the step, the stored controller is aborted after it, and a
\* run that was waiting for its fetch or a read has ended as cancelled.
C21_ResetClearsAndCancels ==
  [][Reset =>
       /\ last'[1] = Act(0, "RESET")
       /\ state'.phase = "idle"
       /\ \A i \in DOMAIN state'.nodes :
            state'.nodes[i].status = "pending" /\ state'.nodes[i].data = NoValue
       /\ state'.result = NoValue /\ state'.error = Null /\ state'.activeTab = Null
       /\ abortRef # 0 => aborted'[abortRef]
       /\ \A r \in Runs :
            (r = abortRef /\ pc[r] \in {"fetching", "reading"}) => pc'[r] = "cancelled"]_vars

\* reset() called during the pacing delay of a run that has a node active:
\* the state is cleared and the run's controller is aborted
C21_Witness ==
  \E r \in Runs :
    /\ last = <<Act(0, "RESET")>> /\ abortRef = r /\ aborted[r]
    /\ pc[r] = "pacing" /\ cur[r] = Progress("market_analyst", r)
    /\ Len(delivered) = 0
    /\ state.phase = "idle" /\ \A n \in NodeName : NodeOf(state, n).status = "pending"

\* C22: run(), from any state, leaves phase streaming, every node pending and
\* without data, and result, error and selection cleared, while every node
\* keeps its id, its position and its two labels.
C22_StartResetsProgress ==
  [][Run =>
       /\ last'[1].type = "START"
       /\ state'.phase = "streaming"
       /\ state'.result = NoValue /\ state'.error = Null /\ state'.activeTab = Null
       /\ DOMAIN state'.nodes = DOMAIN state.nodes
       /\ \A i \in DOMAIN state.nodes :
            /\ state'.nodes[i].status = "pending" /\ state'.nodes[i].data = NoValue
            /\ state'.nodes[i].id = state.nodes[i].id
            /\ state'.nodes[i].label = state.nodes[i].label
            /\ state'.nodes[i].model = state.nodes[i].model]_vars

\* a second run started after the first had failed, with the labels another
\* provider had given the nodes: nothing of the first run is left but the labels
C22_Witness ==
  \E r1, r2 \in Runs :
    /\ pc[r1] = "failed" /\ last = <<Act(r2, "START")>> /\ pc[r2] = "fetching"
    /\ state.phase = "streaming" /\ state.error = Null
    /\ \A n \in NodeName :
         NodeOf(state, n).status = "pending" /\ NodeOf(state, n).model = "G3 Flash"

\* C23: ERROR(message) sets phase to error and stores the message; every node
\* that was active becomes error and keeps its data, every other node is left
\* as it was, result and selection are unchanged, and no node is active
\* afterwards.
C23_FailMarksActiveNodes ==
  [][\A r \in Runs : (last' = <<Act(r, "ERROR")>>) =>
       /\ state'.phase = "error"
       /\ state'.error \in FetchErrors \cup {ReadError}
       /\ state'.result = state.result /\ state'.activeTab = state.activeTab
       /\ \A i \in DOMAIN state.nodes :
            state'.nodes[i] =
              IF state.nodes[i].status = "active"
                THEN [state.nodes[i] EXCEPT !.status = "error"]
                ELSE state.nodes[i]
       /\ \A i \in DOMAIN state'.nodes : state'.nodes[i].status # "active"]_vars

\* ERROR applied while one node was done, one active and the others pending
C23_Witness ==
  \E r \in Runs :
    /\ last = <<Act(r, "ERROR")>> /\ state.phase = "error" /\ state.error = "HTTP 500"
    /\ NodeOf(state, "router").status = "done" /\ NodeOf(state, "router").data # NoValue
    /\ NodeOf(state, "market_analyst").status = "error"
    /\ NodeOf(state, "revenue_manager").status = "pending"
    /\ state.activeTab = "router"

\* the state that applying the actions of the events evs gives, in stream
\* order: COMPLETE for a Result, NODE_ACTIVE and then NODE_DONE for a Progress
\* event with a known node, and NODE_ACTIVE alone for the last event while the
\* run is in its pacing delay
RECURSIVE InStreamOrder(_, _, _)
InStreamOrder(s, evs, pacing) ==
  IF evs = <<>> THEN s
  ELSE LET ev == Head(evs) IN
    IF ev.kind = "result" THEN InStreamOrder(reducerCOMPLETE(s, ev.val), Tail(evs), pacing)
    ELSE IF Unknown(ev) THEN InStreamOrder(s, Tail(evs), pacing)
    ELSE IF Tail(evs) = <<>> /\ pacing THEN reducerNODE_ACTIVE(s, ev.node)
    ELSE InStreamOrder(reducerNODE_DONE(reducerNODE_ACTIVE(s, ev.node), ev.node, ev.val),
                       Tail(evs), pacing)

\* C24: within one run the actions are applied in the order of the events.
\* Between NODE_ACTIVE and NODE_DONE of an event the run dispatches nothing and
\* takes no further event; the step that ends the pacing delay starts with the
\* NODE_DONE of the event held and dispatches no other NODE_DONE; and for the
\* live run, while nothing else has touched the nodes, nodes, phase and result
\* are those that the actions of the delivered events give when applied one
\* event after the other.
C24_AppliedInStreamOrder ==
  [][\A r \in Runs :
       /\ (pc[r] = "pacing" /\ ActsOf(r, last') = {}) =>
            (pc'[r] = "pacing" /\ cur'[r] = cur[r] /\ pend'[r] = pend[r])
       /\ (pc[r] = "pacing" /\ ActsOf(r, last') # {}) =>
            /\ last'[1] = Act(r, "NODE_DONE")
            /\ NodeOf(AfterNodeDone, cur[r].node).status = "done"
            /\ \A i \in DOMAIN last' \ {1} : last'[i].type # "NODE_DONE"
       /\ (pc[r] # "pacing") => \A i \in ActsOf(r, last') : last'[i].type # "NODE_DONE"
       /\ (/\ r = abortRef' /\ ~aborted'[r] /\ ~disturbed'
           /\ pc'[r] \in {"fetching", "reading", "pacing", "done", "sentinel"}) =>
            LET x == InStreamOrder(reducerSTART(state'), delivered', pc'[r] = "pacing") IN
              /\ state'.nodes = x.nodes
              /\ state'.phase = x.phase
              /\ state'.result = x.result]_vars

\* two Progress events in one chunk: NODE_DONE of the first was applied before
\* NODE_ACTIVE of the second
C24_Witness ==
  \E r \in Runs :
    /\ abortRef = r /\ ~aborted[r] /\ ~disturbed /\ pc[r] = "pacing"
    /\ delivered = <<Progress("router", r), Progress("market_analyst", r)>>
    /\ last = <<Act(r, "NODE_DONE"), Act(r, "NODE_ACTIVE")>>
    /\ NodeOf(state, "router").status = "done"
    /\ NodeOf(state, "market_analyst").status = "active"

\* C25: in every reachable state, whatever runs, resets, events and failures
\* led to it: with phase complete a result is stored, with phase error an
\* error is stored, and with phase idle or streaming neither is stored.
C25_PhaseResultErrorConsistent ==
  /\ state.phase = "complete" => state.result # NoValue
  /\ state.phase = "error" => state.error # Null
  /\ state.phase \in {"idle", "streaming"} => (state.result = NoValue /\ state.error = Null)

\* the second run has failed, then the first, replaced while pacing, has
\* applied the Result it still held: phase complete with its result stored
C25_Witness ==
  \E r1, r2 \in Runs :
    /\ r1 # r2 /\ abortRef = r2 /\ pc[r2] = "failed" /\ aborted[r1]
    /\ last = <<Act(r1, "NODE_DONE"), Act(r1, "COMPLETE")>>
    /\ state.phase = "complete" /\ state.result = r1 /\ state.error # Null

\* who wrote each message of a list
Roles(list) == [i \in DOMAIN list |-> list[i].role]

\* C26: a chat turn whose stream fails with an error other than a
\* cancellation, also after text was yielded, appends no assistant message:
\* the list is left as it is and still ends with the user's message, the text
\* shown while streaming is cleared, the error message is stored and the
\* streaming flag is false. An assistant message is appended only in the step
\* in which a stream ends normally, and its content is the values the stream
\* has yielded, in order.
C26_FailedTurnKeepsNoPartialText ==
  [][/\ \A t \in Turns : (turnPc[t] \in {"fetching", "reading"} /\ turnPc'[t] = "failed") =>
          /\ messages' = messages
          /\ messages # <<>> /\ messages[Len(messages)].role = "user"
          /\ streamingText' = <<>> /\ ~streaming'
          /\ error' \in ChatErrors
     /\ \A t \in Turns : (turnPc[t] = "reading" /\ turnPc'[t] = "reading") =>
          /\ IsPrefix(fullResponse[t], fullResponse'[t])
          /\ fullResponse'[t] # fullResponse[t] =>
               (Len(fullResponse'[t]) = Len(fullResponse[t]) + 1 /\ streamingText' = fullResponse'[t])
     /\ (Roles(messages') # Roles(messages) /\ messages'[Len(messages')].role = "assistant") =>
          \E t \in Turns :
            /\ turnPc[t] = "reading" /\ turnPc'[t] = "done"
            /\ messages' = Append(messages, AssistantMessage(fullResponse[t]))
    ]_vars

\* the stream failed after two values: only the user's message is in the list
C26_Witness ==
  \E t \in Turns :
    /\ turnPc[t] = "failed" /\ Len(fullResponse[t]) = 2
    /\ messages = <<UserMessage(<<"h", "i">>)>>
    /\ error = "Failed to fetch" /\ ~streaming /\ streamingText = <<>>

\* the last line of the response when no newline follows it
TrailingLine == chInput.lines[Len(chInput.lines)]

\* C27: when the input ends while the buffer holds a record that no newline
\* ended, the record is dropped: the step of the end of input yields nothing
\* and ends the generator normally with the record still in the buffer, and
\* what was yielded in all is what the response without that record yields.
C27_TrailingBufferDiscarded ==
  [][(chPc = "reading" /\ wire = <<>> /\ chPc' \in {"ended", "returned"}) =>
       /\ chPc' = "ended" /\ yielded' = yielded /\ buffer' = buffer
       /\ ~chInput.terminated =>
            /\ buffer = LineText(TrailingLine)
            /\ yielded = WholeText(TextOf(CompleteLines, TRUE)).yielded]_vars

\* the response ended with a well-formed content record without its newline,
\* after a first record that was yielded
C27_Witness ==
  /\ chPc = "ended" /\ ~chInput.terminated /\ chInput.lines = <<"X", "Y">>
  /\ released = 1 /\ buffer = LineText("Y") /\ yielded = <<"X">>

\* C28: for a response with a status that is not a success, the failure
\* message is the detail of the body when the body is JSON and has one, and
\* HTTP <status> for every other body; the failure comes before the reader is
\* taken, so nothing was read or yielded.
C28_NotOkMessage ==
  [][\A t \in Turns, st \in Statuses \ (200..299), b \in Bodies :
       TurnNotOk(t, st, b) =>
         /\ error' = (IF b = "detail" THEN DetailText ELSE HttpStatus(st))
         /\ turnPc[t] = "fetching" /\ turnPc'[t] = "failed"
         /\ fullResponse'[t] = <<>>]_vars

\* C29: setTab(tab) is accepted in every phase and changes the selection
\* only: after it activeTab is tab, and phase, nodes, result and error are as
\* before.
C29_SelectNodeChangesFocusOnly ==
  [][/\ \A tab \in TabChoices : ENABLED SetTab(tab)
     /\ \A tab \in TabChoices : SetTab(tab) =>
          /\ state'.activeTab = tab
          /\ state'.phase = state.phase /\ state'.nodes = state.nodes
          /\ state'.result = state.result /\ state'.error = state.error]_vars

\* a node selected after a run has failed with a node in error: the selection
\* is the caller's, phase, error and the nodes are as the failure left them
C29_Witness ==
  /\ last = <<Act(0, "SET_TAB")>> /\ state.activeTab = "pricing_strategist"
  /\ state.phase = "error" /\ state.error = ReadError
  /\ NodeOf(state, "router").status = "error"
  /\ NodeOf(state, "pricing_strategist").status = "pending"

\* C30: RESET gives exactly the initial state, from every state, so a second
\* RESET changes nothing; the model labels after it are those of anthropic,
\* whatever provider SET_PROVIDER had set before.
C30_ResetGivesInitialState ==
  [][(last' # <<>> /\ last'[1] = Act(0, "RESET")) =>
       /\ state' = initialState
       /\ reducerRESET(state') = state'
       /\ reducerRESET(state) = reducerRESET(reducerRESET(state))
       /\ \A i \in DOMAIN state'.nodes :
            state'.nodes[i].model = PROVIDER_MODEL_LABELS["anthropic"][state'.nodes[i].id]]_vars

\* reset() after a run whose stream has ended: the state is the initial one,
\* with the labels of anthropic
C30_Witness ==
  \E r \in Runs :
    /\ last = <<Act(0, "RESET")>> /\ abortRef = r /\ aborted[r] /\ pc[r] = "done"
    /\ state = initialState
    /\ NodeOf(state, "pricing_strategist").model = "Sonnet"

====
